---- MODULE Spec2Model ----
(***************************************************************************)
(* PDFViewer of annotation-tester: the quote-resolution pipeline            *)
(* (computeOverlaysForPage and its helpers) and the scheduling around it    *)
(* (url reset effect, annotations effect, page-render timers).              *)
(*                                                                          *)
(* Strings are sequences of one-character strings.  Offsets are 0-based as  *)
(* in the source; SubSeq is 1-based, so T[a..b) is SubSeq(T, a + 1, b).      *)
(* Optional fields of a record (tags?, target?, selector?, exact?) are      *)
(* fields that may be missing from the record's DOMAIN.                     *)
(***************************************************************************)
EXTENDS Integers, Sequences, FiniteSets, TLC

VARIABLES url, annotations, numPages, loadError, pageOverlays, pageRefs,
          dom, pageTimers, debounce, scan, app

vars == <<url, annotations, numPages, loadError, pageOverlays, pageRefs,
          dom, pageTimers, debounce, scan, app>>

(***************************************************************************)
(* Bounds of the model.                                                     *)
(***************************************************************************)
MaxFrags == 3
MaxTextLen == 3
MaxQuoteLen == 2
MaxPages == 2
MaxTimers == 1
MaxTargets == 2
MaxSelectors == 1
MaxTags == 2
MaxTagLen == 3
MaxInFlight == 2
MaxReloads == 3

Chars == {"a", "b"}

Max(x, y) == IF x >= y THEN x ELSE y
Min(x, y) == IF x <= y THEN x ELSE y

\* all strings over alphabet A of length 0..n
StringsUpTo(A, n) == UNION {[1..k -> A] : k \in 0..n}

(***************************************************************************)
(* COLOR_MAP and getAnnotationColor.  A tag is a sequence of tokens: the    *)
(* token ":" and colon-free words; the tag string is their concatenation.   *)
(***************************************************************************)
Colon == ":"
ColorWord == "color"
Yellow == "rgba(255, 235, 59, 0.35)"
Red == "rgba(244, 67, 54, 0.3)"
Green == "rgba(76, 175, 80, 0.3)"
Blue == "rgba(33, 150, 243, 0.3)"
Purple == "rgba(156, 39, 176, 0.3)"
Undefined == "undefined"
\* what a property inherited from Object.prototype evaluates to
InheritedMember == "[inherited Object.prototype member]"

ColorNames == {"yellow", "red", "green", "blue", "purple"}
\* names every object literal answers through its prototype chain
ObjectPrototypeKeys == {"constructor", "toString", "valueOf", "hasOwnProperty"}

\* COLOR_MAP[colorName], colorName a sequence of tokens without ":"
COLOR_MAP(colorName) ==
    IF Len(colorName) # 1 THEN Undefined
    ELSE CASE colorName[1] = "yellow" -> Yellow
           [] colorName[1] = "red" -> Red
           [] colorName[1] = "green" -> Green
           [] colorName[1] = "blue" -> Blue
           [] colorName[1] = "purple" -> Purple
           [] colorName[1] \in ObjectPrototypeKeys -> InheritedMember
           [] OTHER -> Undefined

\* t.startsWith('color:')
StartsWithColor(t) == Len(t) >= 2 /\ t[1] = ColorWord /\ t[2] = Colon

\* t.split(':'): the colon-free pieces of t, in order
RECURSIVE SplitFrom(_, _, _)
SplitFrom(t, i, piece) ==
    IF i > Len(t) THEN <<piece>>
    ELSE IF t[i] = Colon THEN <<piece>> \o SplitFrom(t, i + 1, <<>>)
    ELSE SplitFrom(t, i + 1, Append(piece, t[i]))

Split(t) == SplitFrom(t, 1, <<>>)

\* annotation.tags?.find(pred): index of the first tag that starts with
\* 'color:', 0 when there is none (or no tags)
FindColorTag(annotation) ==
    IF "tags" \notin DOMAIN annotation THEN 0
    ELSE LET hits == {i \in 1..Len(annotation.tags) :
                          StartsWithColor(annotation.tags[i])}
         IN  IF hits = {} THEN 0
             ELSE CHOOSE i \in hits : \A j \in hits : i <= j

getAnnotationColor(annotation) ==
    LET k == FindColorTag(annotation)
    IN  IF k # 0
        THEN LET colorName == Split(annotation.tags[k])[2]
                 c == COLOR_MAP(colorName)
             IN  IF c = Undefined THEN Yellow ELSE c
        ELSE Yellow

(***************************************************************************)
(* getAnnotationExact: the first TextQuoteSelector whose exact is truthy,   *)
(* targets in order, selectors in order.  NoExact stands for null.          *)
(***************************************************************************)
TextQuoteSelector == "TextQuoteSelector"
TextPositionSelector == "TextPositionSelector"
NoExact == <<"null">>

\* SelectorHit with the bug of not looking at the selector's type
SelectorHitAnyType(sel) == "exact" \in DOMAIN sel /\ sel.exact # <<>>

\* sel.type === 'TextQuoteSelector' && sel.exact
SelectorHit(sel) ==
    /\ sel.type = TextQuoteSelector
    /\ "exact" \in DOMAIN sel
    /\ sel.exact # <<>>

RECURSIVE ScanSelectors(_, _)
ScanSelectors(selector, j) ==
    IF j > Len(selector) THEN NoExact
    ELSE IF SelectorHit(selector[j]) THEN selector[j].exact
    ELSE ScanSelectors(selector, j + 1)

RECURSIVE ScanTargets(_, _)
ScanTargets(target, i) ==
    IF i > Len(target) THEN NoExact
    ELSE IF "selector" \notin DOMAIN target[i] THEN ScanTargets(target, i + 1)
    ELSE LET r == ScanSelectors(target[i].selector, 1)
         IN  IF r # NoExact THEN r ELSE ScanTargets(target, i + 1)

getAnnotationExact(annotation) ==
    IF "target" \notin DOMAIN annotation THEN NoExact
    ELSE ScanTargets(annotation.target, 1)

(***************************************************************************)
(* computeOverlaysForPage, the pure part.  A span is                        *)
(* [text |-> its textContent, hasNode |-> whether firstChild is non-null].  *)
(***************************************************************************)
\* BuildIndex with the bug of giving empty spans no entry
RECURSIVE BuildIndexSkippingEmpty(_, _, _, _)
BuildIndexSkippingEmpty(spans, i, fullText, spanOffsets) ==
    IF i > Len(spans)
    THEN [fullText |-> fullText, spanOffsets |-> spanOffsets]
    ELSE LET text == spans[i].text
         IN  BuildIndexSkippingEmpty(spans, i + 1, fullText \o text,
                 IF text = <<>> THEN spanOffsets
                 ELSE Append(spanOffsets,
                             [start |-> Len(fullText),
                              end |-> Len(fullText) + Len(text)]))

\* lines 105-114: fullText and spanOffsets, built span by span
RECURSIVE BuildIndex(_, _, _, _)
BuildIndex(spans, i, fullText, spanOffsets) ==
    IF i > Len(spans)
    THEN [fullText |-> fullText, spanOffsets |-> spanOffsets]
    ELSE LET text == spans[i].text
         IN  BuildIndex(spans, i + 1, fullText \o text,
                        Append(spanOffsets,
                               [start |-> Len(fullText),
                                end |-> Len(fullText) + Len(text)]))

FragmentIndex(spans) == BuildIndex(spans, 1, <<>>, <<>>)

\* does exact occur in fullText at 0-based position k
MatchesAt(fullText, exact, k) ==
    /\ k >= 0
    /\ k + Len(exact) <= Len(fullText)
    /\ SubSeq(fullText, k + 1, k + Len(exact)) = exact

\* IndexOf with the bug of comparing only the first character
IndexOfFirstChar(fullText, exact, searchStart) ==
    LET hits == {k \in searchStart..(Len(fullText) - 1) :
                    fullText[k + 1] = exact[1]}
    IN  IF hits = {} THEN -1
        ELSE CHOOSE k \in hits : \A j \in hits : k <= j

\* String.prototype.indexOf(exact, searchStart): the least position
\* >= searchStart where exact occurs, -1 when there is none
IndexOf(fullText, exact, searchStart) ==
    LET hits == {k \in searchStart..Len(fullText) : MatchesAt(fullText, exact, k)}
    IN  IF hits = {} THEN -1
        ELSE CHOOSE k \in hits : \A j \in hits : k <= j

\* Range.getClientRects() of [rangeStart, rangeEnd) in the text node of span
\* i, in viewport coordinates: span i is one line box at row i, one column
\* per character; a collapsed range has no box.  origin is the viewport
\* position of the page's top-left corner.
GetClientRects(i, rangeStart, rangeEnd, origin) ==
    IF rangeStart >= rangeEnd THEN <<>>
    ELSE <<[top |-> origin.top + i, left |-> origin.left + rangeStart,
            width |-> rangeEnd - rangeStart, height |-> 1]>>

\* ToOverlays with the bug of keeping viewport coordinates
RECURSIVE ToOverlaysViewport(_, _, _, _)
ToOverlaysViewport(rects, k, pageRect, color) ==
    IF k > Len(rects) THEN <<>>
    ELSE <<[top |-> rects[k].top,
            left |-> rects[k].left,
            width |-> rects[k].width,
            height |-> rects[k].height,
            color |-> color]>>
         \o ToOverlaysViewport(rects, k + 1, pageRect, color)

\* lines 150-158: one overlay per client rect, made page-relative
RECURSIVE ToOverlays(_, _, _, _)
ToOverlays(rects, k, pageRect, color) ==
    IF k > Len(rects) THEN <<>>
    ELSE <<[top |-> rects[k].top - pageRect.top,
            left |-> rects[k].left - pageRect.left,
            width |-> rects[k].width,
            height |-> rects[k].height,
            color |-> color]>>
         \o ToOverlays(rects, k + 1, pageRect, color)

\* SkipsSpan with the bug of strict comparisons
SkipsSpanStrict(so, idx, matchEnd) == so.end < idx \/ so.start > matchEnd

\* line 136: the span does not overlap the match
SkipsSpan(so, idx, matchEnd) == so.end <= idx \/ so.start >= matchEnd

\* RangeEnd with the bug of not clamping to the span's length
RangeEndUnclamped(so, matchEnd) == matchEnd - so.start

\* lines 142-143
RangeStart(so, idx) == Max(0, idx - so.start)
RangeEnd(so, matchEnd) == Min(so.end - so.start, matchEnd - so.start)

\* ProjectMatch with the bug of leaving the span loop at a span without a
\* text node
RECURSIVE ProjectMatchStoppingAtChildless(_, _, _, _, _, _, _)
ProjectMatchStoppingAtChildless(spans, spanOffsets, i, idx, matchEnd, pageRect, color) ==
    IF i > Len(spanOffsets) THEN <<>>
    ELSE LET so == spanOffsets[i]
         IN  IF SkipsSpan(so, idx, matchEnd)
             THEN ProjectMatchStoppingAtChildless(spans, spanOffsets, i + 1, idx,
                                                  matchEnd, pageRect, color)
             ELSE IF ~spans[i].hasNode THEN <<>>
             ELSE LET rangeStart == RangeStart(so, idx)
                      rangeEnd == RangeEnd(so, matchEnd)
                      rects == GetClientRects(i, rangeStart, rangeEnd, pageRect)
                  IN  <<[span |-> i, rangeStart |-> rangeStart,
                         rangeEnd |-> rangeEnd,
                         overlays |-> ToOverlays(rects, 1, pageRect, color)]>>
                      \o ProjectMatchStoppingAtChildless(spans, spanOffsets, i + 1,
                                                         idx, matchEnd, pageRect, color)

\* lines 134-160: the range queries of one match, span by span; each entry
\* records the span asked, the sub-range and the overlays it gave
RECURSIVE ProjectMatch(_, _, _, _, _, _, _)
ProjectMatch(spans, spanOffsets, i, idx, matchEnd, pageRect, color) ==
    IF i > Len(spanOffsets) THEN <<>>
    ELSE LET so == spanOffsets[i]
             rest == ProjectMatch(spans, spanOffsets, i + 1, idx, matchEnd,
                                  pageRect, color)
         IN  IF SkipsSpan(so, idx, matchEnd) THEN rest
             ELSE IF ~spans[i].hasNode THEN rest
             ELSE LET rangeStart == RangeStart(so, idx)
                      rangeEnd == RangeEnd(so, matchEnd)
                      rects == GetClientRects(i, rangeStart, rangeEnd, pageRect)
                  IN  <<[span |-> i, rangeStart |-> rangeStart,
                         rangeEnd |-> rangeEnd,
                         overlays |-> ToOverlays(rects, 1, pageRect, color)]>>
                      \o rest

\* NextSearchStart with the bug of resuming at the match itself
NextSearchStartAtMatch(idx, exact) == idx

\* NextSearchStart with the bug of resuming after the whole match
NextSearchStartPastMatch(idx, exact) == idx + Len(exact)

\* line 162: where the scan resumes after the match at idx
NextSearchStart(idx, exact) == idx + 1

\* lines 126-163: the while loop; each entry is one processed occurrence
RECURSIVE ScanOccurrences(_, _, _, _, _, _)
ScanOccurrences(spans, index, exact, searchStart, pageRect, color) ==
    IF ~(searchStart < Len(index.fullText)) THEN <<>>
    ELSE LET idx == IndexOf(index.fullText, exact, searchStart)
         IN  IF idx = -1 THEN <<>>
             ELSE LET matchEnd == idx + Len(exact)
                  IN  <<[idx |-> idx, matchEnd |-> matchEnd,
                         queries |-> ProjectMatch(spans, index.spanOffsets, 1,
                                                  idx, matchEnd, pageRect, color)]>>
                      \o ScanOccurrences(spans, index, exact,
                                         NextSearchStart(idx, exact),
                                         pageRect, color)

\* lines 119-164: the annotation loop; one entry per annotation that has a
\* quotation, holding its processed occurrences
RECURSIVE ScanAnnotations(_, _, _, _, _)
ScanAnnotations(spans, index, anns, a, pageRect) ==
    IF a > Len(anns) THEN <<>>
    ELSE LET exact == getAnnotationExact(anns[a])
             rest == ScanAnnotations(spans, index, anns, a + 1, pageRect)
         IN  IF exact = NoExact THEN rest
             ELSE <<[annotation |-> a, exact |-> exact,
                     occurrences |->
                         ScanOccurrences(spans, index, exact, 0, pageRect,
                                         getAnnotationColor(anns[a]))]>>
                  \o rest

RECURSIVE Flatten(_)
Flatten(seqs) ==
    IF seqs = <<>> THEN <<>> ELSE Head(seqs) \o Flatten(Tail(seqs))

QueryOverlays(queries) ==
    Flatten([k \in 1..Len(queries) |-> queries[k].overlays])
OccurrenceOverlays(occurrences) ==
    Flatten([k \in 1..Len(occurrences) |-> QueryOverlays(occurrences[k].queries)])

\* the overlays array at line 166, in push order
PassOverlays(spans, anns, pageRect) ==
    LET scanned == ScanAnnotations(spans, FragmentIndex(spans), anns, 1, pageRect)
    IN  Flatten([k \in 1..Len(scanned) |->
                    OccurrenceOverlays(scanned[k].occurrences)])

(***************************************************************************)
(* State of the PDFViewer component and of its surroundings.                *)
(*   url, annotations   the props                                           *)
(*   numPages, loadError, pageOverlays   the useState cells                 *)
(*   pageRefs           the keys of pageRefs.current                        *)
(*   dom[p]             the text layer under page p's wrapper div           *)
(*   pageTimers         pending 200 ms timeouts of onPageRenderSuccess, in  *)
(*                      the order they were set, each with the annotations  *)
(*                      its computeOverlaysForPage closes over              *)
(*   debounce           the pending 300 ms timeout of the annotations       *)
(*                      effect, if any, with the annotations and numPages   *)
(*                      it closes over                                      *)
(*   scan               the locals of the occurrence loop of a pass that is *)
(*                      followed iteration by iteration (SpecScan)          *)
(*   app                the useState cells and pending work of the App      *)
(*                      component (SpecApp)                                 *)
(***************************************************************************)
Pages == 1..MaxPages
Urls == {"A", "B"}
NoError == "null"
LoadFailed == "Failed to load PDF."

PageDelay == 200
DebounceDelay == 300

\* no pass is being followed, and the App component as mounted
NoScan == [pc |-> "idle"]
NoStatus == "null"
AppMounted(token) ==
    [loadedPdfUrl |-> FALSE, status |-> NoStatus, error |-> NoError,
     token |-> token, inFlight |-> 0, reloadTimers |-> 0, iframeKey |-> 0]

NoOverlays == [q \in {} |-> <<>>]
NoLayer == [layer |-> FALSE, spans |-> <<>>]
TextLayer(spans) == [layer |-> TRUE, spans |-> spans]
Span(text) == [text |-> text, hasNode |-> TRUE]
\* a span element without child nodes; its textContent is ''
ChildlessSpan == [text |-> <<>>, hasNode |-> FALSE]

\* pageOverlays[pageNum] ?? []
GetOverlaysForPage(overlays, pageNum) ==
    IF pageNum \in DOMAIN overlays THEN overlays[pageNum] ELSE <<>>

\* SetOverlaysForPage with the bug of appending to the page's previous overlays
SetOverlaysForPageMerging(prev, pageNumber, overlays) ==
    [q \in DOMAIN prev \cup {pageNumber} |->
        IF q = pageNumber
        THEN (IF q \in DOMAIN prev THEN prev[q] ELSE <<>>) \o overlays
        ELSE prev[q]]

\* { ...prev, [pageNumber]: overlays }
SetOverlaysForPage(prev, pageNumber, overlays) ==
    [q \in DOMAIN prev \cup {pageNumber} |->
        IF q = pageNumber THEN overlays ELSE prev[q]]

\* pageDiv.getBoundingClientRect() when the window is scrolled by scroll
PageRect(pageNumber, scroll) == [top |-> 10 * pageNumber - scroll, left |-> 2]
Scrolls == {0, 1}

\* computeOverlaysForPage(pageNumber) of the render that saw anns, applied to
\* the overlay state prev: the state its setPageOverlays updater leaves
ComputeOverlaysForPage(prev, pageNumber, anns, scroll) ==
    IF pageNumber \notin pageRefs THEN prev
    ELSE IF ~dom[pageNumber].layer THEN prev
    ELSE IF Len(dom[pageNumber].spans) = 0 THEN prev
    ELSE SetOverlaysForPage(prev, pageNumber,
             PassOverlays(dom[pageNumber].spans, anns,
                          PageRect(pageNumber, scroll)))

\* ComputeAllPages with the bug of the loop test i < n
RECURSIVE ComputeAllPagesButLast(_, _, _, _, _)
ComputeAllPagesButLast(prev, i, n, anns, scroll) ==
    IF i >= n THEN prev
    ELSE ComputeAllPagesButLast(ComputeOverlaysForPage(prev, i, anns, scroll),
                                i + 1, n, anns, scroll)

\* lines 179-181: for (i = 1; i <= n; i++) computeOverlaysForPage(i)
RECURSIVE ComputeAllPages(_, _, _, _, _)
ComputeAllPages(prev, i, n, anns, scroll) ==
    IF i > n THEN prev
    ELSE ComputeAllPages(ComputeOverlaysForPage(prev, i, anns, scroll),
                         i + 1, n, anns, scroll)

\* The annotations effect, run because annotations or numPages changed:
\* its cleanup clears the pending timeout, then it either clears the
\* overlays or sets a new timeout.  A timer set after a pending page timer
\* and with a longer delay fires after it: ahead counts those page timers.
AnnotationsEffectDebounce(anns, n, timers) ==
    IF Len(anns) = 0 THEN <<>>
    ELSE <<[anns |-> anns, numPages |-> n,
            ahead |-> IF PageDelay <= DebounceDelay THEN Len(timers) ELSE 0]>>

\* AnnotationsEffectOverlays with the bug of never clearing
AnnotationsEffectOverlaysKeeping(anns, overlays) == overlays

AnnotationsEffectOverlays(anns, overlays) ==
    IF Len(anns) = 0 THEN NoOverlays ELSE overlays

(***************************************************************************)
(* Inputs.                                                                  *)
(***************************************************************************)
\* an annotation with one target holding one TextQuoteSelector
QuoteAnnotation(exact) ==
    [target |-> <<[selector |-> <<[type |-> TextQuoteSelector, exact |-> exact]>>]>>]
TaggedQuoteAnnotation(exact, tags) ==
    [target |-> <<[selector |-> <<[type |-> TextQuoteSelector, exact |-> exact]>>]>>,
     tags |-> tags]

ColorTag(name) == <<ColorWord, Colon, name>>

\* the text layers and annotation lists the scheduling model draws from
SchedLayouts ==
    { <<>>,
      <<Span(<<"a">>), Span(<<"b">>)>> }
SchedDomStates == {NoLayer} \cup {TextLayer(l) : l \in SchedLayouts}
SchedAnnotationSets ==
    { <<>>,
      <<TaggedQuoteAnnotation(<<"a", "b">>, <<ColorTag("red")>>)>>,
      <<QuoteAnnotation(<<"a", "a">>), QuoteAnnotation(<<"b", "a">>)>> }

(***************************************************************************)
(* The component's handlers and the events of its surroundings.             *)
(***************************************************************************)
Init ==
    /\ url = "A"
    /\ annotations \in SchedAnnotationSets
    /\ numPages = 0
    /\ loadError = NoError
    /\ pageOverlays = NoOverlays
    /\ pageRefs = {}
    /\ dom = [p \in Pages |-> NoLayer]
    /\ pageTimers = <<>>
    /\ debounce = AnnotationsEffectDebounce(annotations, 0, <<>>)
    /\ scan = NoScan
    /\ app = AppMounted(TRUE)

\* ChangeUrl with the bug of not clearing pageRefs.current
ChangeUrlKeepingRefs(u) ==
    /\ u # url
    /\ url' = u
    /\ numPages' = 0
    /\ loadError' = NoError
    /\ pageRefs' = pageRefs
    /\ dom' = [p \in Pages |-> NoLayer]
    /\ IF numPages # 0
       THEN /\ pageOverlays' = AnnotationsEffectOverlays(annotations, NoOverlays)
            /\ debounce' = AnnotationsEffectDebounce(annotations, 0, pageTimers)
       ELSE /\ pageOverlays' = NoOverlays
            /\ debounce' = debounce
    /\ UNCHANGED <<annotations, pageTimers, scan, app>>

\* The url prop changes: the reset effect (lines 75-80) runs, the page
\* wrappers unmount with numPages = 0, and the annotations effect runs again
\* when numPages changed.  Page timers are left pending.
ChangeUrl(u) ==
    /\ u # url
    /\ url' = u
    /\ numPages' = 0
    /\ loadError' = NoError
    /\ pageRefs' = {}
    /\ dom' = [p \in Pages |-> NoLayer]
    /\ IF numPages # 0
       THEN /\ pageOverlays' = AnnotationsEffectOverlays(annotations, NoOverlays)
            /\ debounce' = AnnotationsEffectDebounce(annotations, 0, pageTimers)
       ELSE /\ pageOverlays' = NoOverlays
            /\ debounce' = debounce
    /\ UNCHANGED <<annotations, pageTimers,
                   scan, app>>

\* onDocumentLoadSuccess (lines 82-85), the render that mounts the page
\* wrappers and registers their refs (lines 203-211), and the annotations
\* effect that the new numPages triggers
DocumentLoadSuccess(n) ==
    /\ numPages = 0
    /\ loadError = NoError
    /\ numPages' = n
    /\ loadError' = NoError
    /\ pageRefs' = pageRefs \cup (1..n)
    /\ pageOverlays' = AnnotationsEffectOverlays(annotations, pageOverlays)
    /\ debounce' = AnnotationsEffectDebounce(annotations, n, pageTimers)
    /\ UNCHANGED <<url, annotations, dom, pageTimers,
                   scan, app>>

\* onDocumentLoadError (lines 87-91)
DocumentLoadError ==
    /\ numPages = 0
    /\ loadError = NoError
    /\ loadError' = LoadFailed
    /\ UNCHANGED <<url, annotations, numPages, pageOverlays, pageRefs, dom,
                   pageTimers, debounce,
                   scan, app>>

\* the renderer (re)builds the text layer of a mounted page
RenderTextLayer(p, d) ==
    /\ p \in 1..numPages
    /\ d # dom[p]
    /\ dom' = [dom EXCEPT ![p] = d]
    /\ UNCHANGED <<url, annotations, numPages, loadError, pageOverlays,
                   pageRefs, pageTimers, debounce,
                   scan, app>>

\* onPageRenderSuccess (lines 186-192): a 200 ms timeout around the
\* computeOverlaysForPage of the current render
PageRenderSuccess(p) ==
    /\ p \in 1..numPages
    /\ Len(pageTimers) < MaxTimers
    /\ pageTimers' = Append(pageTimers, [page |-> p, anns |-> annotations])
    /\ UNCHANGED <<url, annotations, numPages, loadError, pageOverlays,
                   pageRefs, dom, debounce,
                   scan, app>>

\* the oldest page timeout fires (line 189)
FirePageTimer ==
    /\ pageTimers # <<>>
    /\ \E scroll \in Scrolls :
          pageOverlays' = ComputeOverlaysForPage(pageOverlays, Head(pageTimers).page,
                                                 Head(pageTimers).anns, scroll)
    /\ pageTimers' = Tail(pageTimers)
    /\ debounce' = [k \in DOMAIN debounce |->
                       [debounce[k] EXCEPT !.ahead = Max(0, @ - 1)]]
    /\ UNCHANGED <<url, annotations, numPages, loadError, pageRefs, dom,
                   scan, app>>

\* the timeout of the annotations effect fires (lines 178-182)
FireDebounce ==
    /\ debounce # <<>>
    /\ debounce[1].ahead = 0
    /\ \E scroll \in Scrolls :
          pageOverlays' = ComputeAllPages(pageOverlays, 1, debounce[1].numPages,
                                          debounce[1].anns, scroll)
    /\ debounce' = <<>>
    /\ UNCHANGED <<url, annotations, numPages, loadError, pageRefs, dom,
                   pageTimers,
                   scan, app>>

\* SetAnnotations with the bug of leaving a pending timeout in place instead
\* of clearing it and setting a new one
SetAnnotationsKeepingTimeout(new) ==
    /\ annotations' = new
    /\ pageOverlays' = AnnotationsEffectOverlays(new, pageOverlays)
    /\ debounce' = IF debounce # <<>> THEN debounce
                   ELSE AnnotationsEffectDebounce(new, numPages, pageTimers)
    /\ UNCHANGED <<url, numPages, loadError, pageRefs, dom, pageTimers, scan, app>>

\* the annotations prop changes: computeOverlaysForPage is rebuilt and the
\* annotations effect (lines 172-184) runs again
SetAnnotations(new) ==
    /\ annotations' = new
    /\ pageOverlays' = AnnotationsEffectOverlays(new, pageOverlays)
    /\ debounce' = AnnotationsEffectDebounce(new, numPages, pageTimers)
    /\ UNCHANGED <<url, numPages, loadError, pageRefs, dom, pageTimers,
                   scan, app>>

Next ==
    \/ \E u \in Urls : ChangeUrl(u)
    \/ \E n \in Pages : DocumentLoadSuccess(n)
    \/ DocumentLoadError
    \/ \E p \in Pages, d \in SchedDomStates : RenderTextLayer(p, d)
    \/ \E p \in Pages : PageRenderSuccess(p)
    \/ FirePageTimer
    \/ FireDebounce
    \/ \E new \in SchedAnnotationSets : SetAnnotations(new)

Spec == Init /\ [][Next]_vars

(***************************************************************************)
(* The pipeline on its own: page 1 of a loaded one-page document is laid    *)
(* out and its render-success timeout is pending (the annotations effect's  *)
(* timeout fired before the text layer was there), and it fires.  The text  *)
(* layer and the annotation list are drawn from every layout and quotation  *)
(* within the bounds.                                                       *)
(***************************************************************************)
\* the ways to cut text T into k consecutive pieces (empty pieces included)
CutsOf(T, k) ==
    {c \in [1..(k - 1) -> 0..Len(T)] : \A i \in 1..(k - 2) : c[i] <= c[i + 1]}
Piece(T, c, k, i) ==
    SubSeq(T, (IF i = 1 THEN 0 ELSE c[i - 1]) + 1, IF i = k THEN Len(T) ELSE c[i])
EmptyPieces(T, c, k) == {i \in 1..k : Piece(T, c, k, i) = <<>>}
\* the spans of T cut at c; the empty pieces in E are childless spans
LayoutOf(T, c, k, E) ==
    [i \in 1..k |-> IF i \in E THEN ChildlessSpan ELSE Span(Piece(T, c, k, i))]

PassLayouts ==
    {<<>>} \cup
    UNION { UNION { UNION { {LayoutOf(T, c, k, E) : E \in SUBSET EmptyPieces(T, c, k)}
                            : c \in CutsOf(T, k)}
                    : k \in 1..MaxFrags}
            : T \in StringsUpTo(Chars, MaxTextLen)}
PassDomStates == {NoLayer} \cup {TextLayer(l) : l \in PassLayouts}

Quotes == StringsUpTo(Chars, MaxQuoteLen) \ {<<>>}
PassAnnotationSets ==
    {<<>>}
    \cup {<<QuoteAnnotation(q)>> : q \in Quotes}
    \cup {<<QuoteAnnotation(<<c>>),
            TaggedQuoteAnnotation(<<"a">>, <<ColorTag("red")>>)>> : c \in Chars}

\* the state after onDocumentLoadSuccess(1), the firing of the annotations
\* effect's timeout, the text layer's rendering and onPageRenderSuccess(1)
LoadedOnePage(d, anns) ==
    /\ url = "A"
    /\ annotations = anns
    /\ numPages = 1
    /\ loadError = NoError
    /\ pageOverlays = NoOverlays
    /\ pageRefs = {1}
    /\ dom = [p \in Pages |-> IF p = 1 THEN d ELSE NoLayer]
    /\ pageTimers = <<[page |-> 1, anns |-> anns]>>
    /\ debounce = <<>>
    /\ scan = NoScan
    /\ app = AppMounted(TRUE)

InitPass == \E d \in PassDomStates, anns \in PassAnnotationSets : LoadedOnePage(d, anns)

NextPass == FirePageTimer

SpecPass == InitPass /\ [][NextPass]_vars

(***************************************************************************)
(* Properties of the pipeline, checked under SpecPass.                      *)
(***************************************************************************)
\* the pass for page p has run: both timeouts have fired and left a result
PassDone(p) == pageTimers = <<>> /\ debounce = <<>> /\ p \in DOMAIN pageOverlays

\* the logical text of a layout, independently of BuildIndex
LogicalText(spans) == Flatten([i \in 1..Len(spans) |-> spans[i].text])

\* what the annotation loop processes on page p
ScannedOn(p) ==
    ScanAnnotations(dom[p].spans, FragmentIndex(dom[p].spans), annotations, 1,
                    PageRect(p, 0))

\* C1: the offset table has one half-open range per fragment in fragment
\* order, starting at 0, each range starting where the previous one ends and
\* as long as its fragment's text, the last ending at the length of the
\* concatenated text
C1_OffsetTableContiguous ==
    \A p \in Pages :
        dom[p].layer =>
            LET spans == dom[p].spans
                index == FragmentIndex(spans)
                so == index.spanOffsets
            IN  /\ Len(so) = Len(spans)
                /\ index.fullText = LogicalText(spans)
                /\ Len(so) > 0 => so[1].start = 0
                /\ Len(so) > 0 => so[Len(so)].end = Len(LogicalText(spans))
                /\ \A i \in 1..Len(so) :
                       so[i].end - so[i].start = Len(spans[i].text)
                /\ \A i \in 1..(Len(so) - 1) : so[i + 1].start = so[i].end

\* a pass has run over three fragments, the middle one empty
C1_Witness ==
    /\ PassDone(1)
    /\ Len(dom[1].spans) = 3
    /\ dom[1].spans[1].text # <<>>
    /\ dom[1].spans[2].text = <<>>
    /\ dom[1].spans[3].text # <<>>

\* C2: every occurrence [s,e) the scan processes has e - s = |Q| and
\* T[s..e) = Q, and occurrences are processed in non-decreasing start order
C2_OccurrencesAreMatches ==
    \A p \in Pages :
        dom[p].layer =>
            LET T == LogicalText(dom[p].spans)
                scanned == ScannedOn(p)
            IN  \A a \in 1..Len(scanned) :
                    LET Q == scanned[a].exact
                        occ == scanned[a].occurrences
                    IN  /\ \A k \in 1..Len(occ) :
                               /\ occ[k].idx >= 0
                               /\ occ[k].matchEnd - occ[k].idx = Len(Q)
                               /\ occ[k].matchEnd <= Len(T)
                               /\ SubSeq(T, occ[k].idx + 1, occ[k].matchEnd) = Q
                        /\ \A k \in 1..(Len(occ) - 1) :
                               occ[k].idx <= occ[k + 1].idx

\* a pass has processed two occurrences of one quotation
C2_Witness ==
    /\ PassDone(1)
    /\ Len(ScannedOn(1)) >= 1
    /\ Len(ScannedOn(1)[1].occurrences) >= 2
    /\ Len(pageOverlays[1]) >= 2

\* the positions where Q occurs in T, by definition
OccurrencePositions(T, Q) ==
    {i \in 0..Len(T) : i + Len(Q) <= Len(T) /\ SubSeq(T, i + 1, i + Len(Q)) = Q}

\* C3: the starts the scan reports are exactly the positions i with
\* T[i..i+|Q|) = Q, each once, overlapping occurrences included
C3_AllOccurrencesOnce ==
    \A p \in Pages :
        dom[p].layer =>
            LET T == LogicalText(dom[p].spans)
                scanned == ScannedOn(p)
            IN  \A a \in 1..Len(scanned) :
                    LET occ == scanned[a].occurrences
                    IN  /\ {occ[k].idx : k \in 1..Len(occ)}
                             = OccurrencePositions(T, scanned[a].exact)
                        /\ \A k, l \in 1..Len(occ) :
                               occ[k].idx = occ[l].idx => k = l

\* quotation "aa" in the text "aaa": occurrences at [0,2) and [1,3)
C3_Witness ==
    /\ PassDone(1)
    /\ LogicalText(dom[1].spans) = <<"a", "a", "a">>
    /\ Len(ScannedOn(1)) >= 1
    /\ ScannedOn(1)[1].exact = <<"a", "a">>
    /\ Len(ScannedOn(1)[1].occurrences) = 2
    /\ ScannedOn(1)[1].occurrences[1].idx = 0
    /\ ScannedOn(1)[1].occurrences[1].matchEnd = 2
    /\ ScannedOn(1)[1].occurrences[2].idx = 1
    /\ ScannedOn(1)[1].occurrences[2].matchEnd = 3

\* the logical positions of the half-open range [a, b)
Positions(a, b) == {x \in a..(b - 1) : TRUE}

\* occurrence [s,e) spans a fragment boundary: a boundary between two
\* fragments lies strictly inside it
SpansBoundary(so, s, e) ==
    \E i \in 1..(Len(so) - 1) : s < so[i].end /\ so[i].end < e

\* C4: for an occurrence [s,e) that spans a fragment boundary, each fragment
\* whose range intersects [s,e) and that has a text node is asked once, for
\* [max(0, s - start), min(length, e - start)), and gives at least one
\* rectangle; the queried sub-ranges shifted by their fragment's start are
\* disjoint and together cover [s,e)
C4_BoundarySpanningProjection ==
    \A p \in Pages :
        dom[p].layer =>
            LET spans == dom[p].spans
                so == FragmentIndex(spans).spanOffsets
                scanned == ScannedOn(p)
            IN  \A a \in 1..Len(scanned) :
                \A k \in 1..Len(scanned[a].occurrences) :
                    LET s == scanned[a].occurrences[k].idx
                        e == scanned[a].occurrences[k].matchEnd
                        qs == scanned[a].occurrences[k].queries
                        shifted(j) ==
                            Positions(so[qs[j].span].start + qs[j].rangeStart,
                                      so[qs[j].span].start + qs[j].rangeEnd)
                    IN  SpansBoundary(so, s, e) =>
                        /\ \A i \in 1..Len(spans) :
                               (Positions(so[i].start, so[i].end) \cap Positions(s, e) # {}
                                /\ spans[i].hasNode)
                               => /\ Cardinality({j \in 1..Len(qs) : qs[j].span = i}) = 1
                                  /\ \A j \in 1..Len(qs) :
                                         qs[j].span = i =>
                                         /\ qs[j].rangeStart = Max(0, s - so[i].start)
                                         /\ qs[j].rangeEnd
                                              = Min(Len(spans[i].text), e - so[i].start)
                                         /\ Len(qs[j].overlays) >= 1
                        /\ \A j, l \in 1..Len(qs) :
                               j # l => shifted(j) \cap shifted(l) = {}
                        /\ UNION {shifted(j) : j \in 1..Len(qs)} = Positions(s, e)

\* fragments "ab", "b" and quotation "bb": the occurrence [1,3) asks
\* fragment 1 for [1,2) and fragment 2 for [0,1)
C4_Witness ==
    /\ PassDone(1)
    /\ Len(dom[1].spans) = 2
    /\ dom[1].spans[1].text = <<"a", "b">>
    /\ dom[1].spans[2].text = <<"b">>
    /\ Len(ScannedOn(1)) = 1
    /\ ScannedOn(1)[1].exact = <<"b", "b">>
    /\ Len(ScannedOn(1)[1].occurrences) = 1
    /\ LET qs == ScannedOn(1)[1].occurrences[1].queries
       IN  /\ Len(qs) = 2
           /\ qs[1].span = 1 /\ qs[1].rangeStart = 1 /\ qs[1].rangeEnd = 2
           /\ qs[2].span = 2 /\ qs[2].rangeStart = 0 /\ qs[2].rangeEnd = 1
    /\ Len(pageOverlays[1]) = 2
    /\ pageOverlays[1][1].top = 1 /\ pageOverlays[1][1].left = 1
    /\ pageOverlays[1][2].top = 2 /\ pageOverlays[1][2].left = 0

\* C5: for an occurrence [s,e) that lies inside one fragment's range, only
\* that fragment is asked for rectangles and every rectangle of the
\* occurrence lies on that fragment's row
C5_ConfinedOccurrenceOneFragment ==
    \A p \in Pages :
        dom[p].layer =>
            LET spans == dom[p].spans
                so == FragmentIndex(spans).spanOffsets
                scanned == ScannedOn(p)
            IN  \A a \in 1..Len(scanned) :
                \A k \in 1..Len(scanned[a].occurrences) :
                    LET s == scanned[a].occurrences[k].idx
                        e == scanned[a].occurrences[k].matchEnd
                        qs == scanned[a].occurrences[k].queries
                    IN  \A i \in 1..Len(spans) :
                            (so[i].start <= s /\ e <= so[i].end) =>
                                /\ \A j \in 1..Len(qs) : qs[j].span = i
                                /\ \A j \in 1..Len(QueryOverlays(qs)) :
                                       QueryOverlays(qs)[j].top = i

\* an occurrence inside the middle fragment, with an empty fragment that has
\* a text node before it and a non-empty fragment after it
C5_Witness ==
    /\ PassDone(1)
    /\ Len(dom[1].spans) = 3
    /\ dom[1].spans[1] = Span(<<>>)
    /\ dom[1].spans[2].text = <<"a", "b">>
    /\ dom[1].spans[3].text = <<"b">>
    /\ Len(ScannedOn(1)) = 1
    /\ ScannedOn(1)[1].exact = <<"a", "b">>
    /\ Len(pageOverlays[1]) = 1
    /\ pageOverlays[1][1].top = 2

(***************************************************************************)
(* Properties of the overlay store and the scheduling, checked under Spec.  *)
(***************************************************************************)
\* page p has a registered wrapper, a text layer and at least one span
LaidOut(p) == p \in pageRefs /\ dom[p].layer /\ Len(dom[p].spans) > 0

\* the step is the firing of the oldest page timeout
PageTimerFires == pageTimers # <<>> /\ pageTimers' = Tail(pageTimers)

\* the step is the firing of the annotations effect's timeout
DebounceFires == debounce # <<>> /\ debounce' = <<>> /\ annotations' = annotations

\* no quotation of anns occurs in the text of spans
NoQuotationOccurs(spans, anns) ==
    \A a \in 1..Len(anns) :
        getAnnotationExact(anns[a]) # NoExact =>
            OccurrencePositions(LogicalText(spans), getAnnotationExact(anns[a])) = {}

\* C6: when the annotation set changes to empty, every page's overlay set is
\* empty right after the change, whatever timeouts are pending
C6_EmptyAnnotationsClearNow ==
    [][(annotations # <<>> /\ annotations' = <<>>)
          => \A p \in Pages : GetOverlaysForPage(pageOverlays', p) = <<>>]_vars

\* the annotations were emptied while a page timeout set under a non-empty
\* annotation list was pending for a laid-out page, and no page has overlays
C6_Witness ==
    /\ annotations = <<>>
    /\ pageTimers # <<>>
    /\ Head(pageTimers).anns # <<>>
    /\ LaidOut(Head(pageTimers).page)
    /\ ~NoQuotationOccurs(dom[Head(pageTimers).page].spans, Head(pageTimers).anns)
    /\ \A p \in Pages : GetOverlaysForPage(pageOverlays, p) = <<>>

\* C7: a pass for a laid-out page p replaces p's overlay set with exactly
\* the rectangles of that pass (none when no quotation occurs on the page)
\* and leaves the overlay set of every other page unchanged
C7_PassReplacesWholesale ==
    [][/\ (PageTimerFires /\ LaidOut(Head(pageTimers).page)) =>
            LET p == Head(pageTimers).page
                anns == Head(pageTimers).anns
            IN  /\ GetOverlaysForPage(pageOverlays', p)
                     = PassOverlays(dom[p].spans, anns, PageRect(p, 0))
                /\ NoQuotationOccurs(dom[p].spans, anns)
                     => GetOverlaysForPage(pageOverlays', p) = <<>>
                /\ \A q \in Pages \ {p} :
                       GetOverlaysForPage(pageOverlays', q)
                         = GetOverlaysForPage(pageOverlays, q)
       /\ DebounceFires =>
            \A p \in Pages :
                IF p <= debounce[1].numPages /\ LaidOut(p)
                THEN /\ GetOverlaysForPage(pageOverlays', p)
                          = PassOverlays(dom[p].spans, debounce[1].anns, PageRect(p, 0))
                     /\ NoQuotationOccurs(dom[p].spans, debounce[1].anns)
                          => GetOverlaysForPage(pageOverlays', p) = <<>>
                ELSE GetOverlaysForPage(pageOverlays', p)
                          = GetOverlaysForPage(pageOverlays, p)
      ]_vars

\* page 1 was written with no rectangle because its quotation is absent from
\* its text, while page 2 keeps its rectangles
C7_Witness ==
    /\ 1 \in DOMAIN pageOverlays
    /\ pageOverlays[1] = <<>>
    /\ LaidOut(1)
    /\ annotations # <<>>
    /\ NoQuotationOccurs(dom[1].spans, annotations)
    /\ GetOverlaysForPage(pageOverlays, 2) # <<>>

\* C8: a pass for a page without text fragments or not yet laid out leaves
\* that page with an empty overlay set, even when it held overlays before
C8_NotLaidOutPassLeavesEmpty ==
    [][(PageTimerFires /\ ~LaidOut(Head(pageTimers).page))
          => GetOverlaysForPage(pageOverlays', Head(pageTimers).page) = <<>>]_vars

(***************************************************************************)
(* getAnnotationExact and getAnnotationColor on their own: the page of      *)
(* SpecPass with the fixed text layer "ab", "b" and one annotation, drawn   *)
(* from every target list (SpecExact) or every tag list (SpecColor) within  *)
(* the bounds.                                                              *)
(***************************************************************************)
\* sequences over S of length 0..n
SeqsUpTo(S, n) == UNION {[1..k -> S] : k \in 0..n}

FixedLayer == TextLayer(<<Span(<<"a", "b">>), Span(<<"b">>)>>)

ExactSelectors ==
    { [type |-> TextQuoteSelector],
      [type |-> TextQuoteSelector, exact |-> <<>>],
      [type |-> TextQuoteSelector, exact |-> <<"a", "b">>],
      [type |-> TextQuoteSelector, exact |-> <<"b">>],
      [type |-> TextPositionSelector, exact |-> <<"a", "b">>] }
ExactTargets ==
    {[source |-> "A"]}
    \cup {[source |-> "A", selector |-> sels] : sels \in SeqsUpTo(ExactSelectors, MaxSelectors)}
ExactAnnotations ==
    {[id |-> "1"]}
    \cup {[id |-> "1", target |-> ts] : ts \in SeqsUpTo(ExactTargets, MaxTargets)}

InitExact == \E a \in ExactAnnotations : LoadedOnePage(FixedLayer, <<a>>)

SpecExact == InitExact /\ [][NextPass]_vars

TagTokens == {ColorWord, Colon, "red", "blue", "constructor"}
Tags == SeqsUpTo(TagTokens, MaxTagLen) \ {<<>>}
ColorAnnotations ==
    {QuoteAnnotation(<<"a", "b">>)}
    \cup {TaggedQuoteAnnotation(<<"a", "b">>, tags) : tags \in SeqsUpTo(Tags, MaxTags)}

InitColor == \E a \in ColorAnnotations : LoadedOnePage(FixedLayer, <<a>>)

SpecColor == InitColor /\ [][NextPass]_vars

\* every selector of the annotation, targets in order, selectors in order
AllSelectors(annotation) ==
    IF "target" \notin DOMAIN annotation THEN <<>>
    ELSE Flatten([i \in 1..Len(annotation.target) |->
                     IF "selector" \in DOMAIN annotation.target[i]
                     THEN annotation.target[i].selector ELSE <<>>])

\* the least element of a non-empty set of numbers
Least(S) == CHOOSE i \in S : \A j \in S : i <= j

\* the annotation at index a contributes no occurrence and no rectangle
ContributesNothing(a) ==
    /\ getAnnotationExact(annotations[a]) = NoExact
    /\ \A k \in 1..Len(ScannedOn(1)) : ScannedOn(1)[k].annotation # a
    /\ Len(annotations) = 1 => pageOverlays[1] = <<>>

\* the annotation at index a is scanned for exactly the quotation Q
ScannedFor(a, Q) ==
    /\ getAnnotationExact(annotations[a]) = Q
    /\ \E k \in 1..Len(ScannedOn(1)) :
           ScannedOn(1)[k].annotation = a /\ ScannedOn(1)[k].exact = Q

\* C9 as stated: the quotation is the string of the first TextQuoteSelector
\* in target and selector order; when that string is missing or empty, or
\* there is no such selector, the annotation contributes nothing
C9_FirstExactTextSelector ==
    PassDone(1) =>
        \A a \in 1..Len(annotations) :
            LET sels == AllSelectors(annotations[a])
                hits == {i \in 1..Len(sels) : sels[i].type = TextQuoteSelector}
            IN  IF hits = {} THEN ContributesNothing(a)
                ELSE IF "exact" \notin DOMAIN sels[Least(hits)] THEN ContributesNothing(a)
                ELSE IF sels[Least(hits)].exact = <<>> THEN ContributesNothing(a)
                ELSE ScannedFor(a, sels[Least(hits)].exact)

\* C9 as amended: the quotation is the string of the first TextQuoteSelector
\* that has a non-empty string, in target and selector order; an annotation
\* without such a selector contributes no occurrence and no rectangle
C9_FirstNonEmptyExactTextSelector ==
    PassDone(1) =>
        \A a \in 1..Len(annotations) :
            LET sels == AllSelectors(annotations[a])
                hits == {i \in 1..Len(sels) :
                            /\ sels[i].type = TextQuoteSelector
                            /\ "exact" \in DOMAIN sels[i]
                            /\ sels[i].exact # <<>>}
            IN  IF hits = {} THEN ContributesNothing(a)
                ELSE ScannedFor(a, sels[Least(hits)].exact)

\* the first TextQuoteSelector has an empty string, a later one has "b", and
\* the pass stored the two rectangles of "b"
C9_Witness ==
    /\ PassDone(1)
    /\ Len(annotations) = 1
    /\ Len(AllSelectors(annotations[1])) = 2
    /\ AllSelectors(annotations[1])[1] = [type |-> TextQuoteSelector, exact |-> <<>>]
    /\ AllSelectors(annotations[1])[2] = [type |-> TextQuoteSelector, exact |-> <<"b">>]
    /\ Len(pageOverlays[1]) = 2

\* the color the claim gives an annotation: that of the name after the
\* prefix of the first tag 'color:<name>', yellow when there is no such tag
\* or the name is not a key of COLOR_MAP
ClaimedColor(annotation) ==
    LET tags == IF "tags" \in DOMAIN annotation THEN annotation.tags ELSE <<>>
        hits == {i \in 1..Len(tags) :
                    Len(tags[i]) >= 2 /\ tags[i][1] = "color" /\ tags[i][2] = ":"}
    IN  IF hits = {} THEN Yellow
        ELSE LET name == SubSeq(tags[Least(hits)], 3, Len(tags[Least(hits)]))
             IN  IF Len(name) = 1 /\ name[1] \in ColorNames
                 THEN COLOR_MAP(name) ELSE Yellow

\* C10: every rectangle produced for an annotation carries the color of the
\* name in its first tag 'color:<name>', or yellow when it has no such tag
\* or the name is not a recognized color
C10_RectanglesCarryTagColor ==
    PassDone(1) =>
        \A k \in 1..Len(ScannedOn(1)) :
            LET ov == OccurrenceOverlays(ScannedOn(1)[k].occurrences)
            IN  \A j \in 1..Len(ov) :
                    ov[j].color = ClaimedColor(annotations[ScannedOn(1)[k].annotation])

(***************************************************************************)
(* The span loop of the projection (SpecPass).                              *)
(***************************************************************************)
\* C16: no span is asked for the rectangles of an empty sub-range: every
\* range handed to getClientRects has rangeStart < rangeEnd, so a span with
\* empty text strictly inside an occurrence is not asked at all
C16_NoEmptySubRangeAsked ==
    PassDone(1) =>
        \A k \in 1..Len(ScannedOn(1)) :
            \A o \in 1..Len(ScannedOn(1)[k].occurrences) :
                LET queries == ScannedOn(1)[k].occurrences[o].queries
                IN  \A q \in 1..Len(queries) :
                        /\ queries[q].rangeStart < queries[q].rangeEnd
                        /\ dom[1].spans[queries[q].span].text # <<>>

\* the spans that pass the overlap test of line 136 for the occurrence [s,e)
Touched(so, s, e) == {i \in 1..Len(so) : so[i].end > s /\ so[i].start < e}

\* C17: when an occurrence touches a span without a text node, that span is
\* not asked, every other touched span is still asked once and (when its
\* text is not empty) gives at least one rectangle, and the pass writes the
\* page's overlay set, all the rectangles asked
C17_MissingTextNodeOmitsOnlyThatSpan ==
    (pageTimers = <<>> /\ LaidOut(1)) =>
        LET spans == dom[1].spans
            so == FragmentIndex(spans).spanOffsets
            scanned == ScannedOn(1)
        IN  /\ 1 \in DOMAIN pageOverlays
            /\ pageOverlays[1]
                 = Flatten([a \in 1..Len(scanned) |->
                              OccurrenceOverlays(scanned[a].occurrences)])
            /\ \A a \in 1..Len(scanned) :
               \A k \in 1..Len(scanned[a].occurrences) :
                   LET qs == scanned[a].occurrences[k].queries
                       touched == Touched(so, scanned[a].occurrences[k].idx,
                                          scanned[a].occurrences[k].matchEnd)
                   IN  (\E i \in touched : ~spans[i].hasNode) =>
                           \A i \in touched :
                               IF ~spans[i].hasNode
                               THEN \A j \in 1..Len(qs) : qs[j].span # i
                               ELSE /\ Cardinality({j \in 1..Len(qs) : qs[j].span = i}) = 1
                                    /\ \A j \in 1..Len(qs) :
                                           (qs[j].span = i /\ spans[i].text # <<>>)
                                               => Len(qs[j].overlays) >= 1

\* spans "a", a span without child node, "b", and quotation "ab": the
\* occurrence [0,2) asks spans 1 and 3 and the pass stored two rectangles
C17_Witness ==
    /\ PassDone(1)
    /\ dom[1].spans = <<Span(<<"a">>), ChildlessSpan, Span(<<"b">>)>>
    /\ Len(ScannedOn(1)) = 1
    /\ ScannedOn(1)[1].exact = <<"a", "b">>
    /\ Len(ScannedOn(1)[1].occurrences) = 1
    /\ LET qs == ScannedOn(1)[1].occurrences[1].queries
       IN  Len(qs) = 2 /\ qs[1].span = 1 /\ qs[2].span = 3
    /\ Len(pageOverlays[1]) = 2
    /\ pageOverlays[1][1].top = 1 /\ pageOverlays[1][2].top = 3

(***************************************************************************)
(* The loops of a pass, iteration by iteration: the page timeout of a       *)
(* laid-out one-span page has fired and computeOverlaysForPage(1) is at     *)
(* line 119.  scan holds its locals: the annotation index a, exact,         *)
(* searchStart, the idx values matched for the current annotation, and the  *)
(* finished annotations' matches.                                           *)
(***************************************************************************)
ScanLayouts == {<<Span(T)>> : T \in StringsUpTo(Chars, MaxTextLen)}
ScanQuoteAnnotations == {QuoteAnnotation(q) : q \in Quotes \cup {<<>>}}
ScanAnnotationSets ==
    {<<x>> : x \in ScanQuoteAnnotations}
      \cup {<<x, y>> : x \in {QuoteAnnotation(<<>>), QuoteAnnotation(<<"a">>)},
                       y \in ScanQuoteAnnotations}

InitScan ==
    \E l \in ScanLayouts, anns \in ScanAnnotationSets :
        /\ url = "A"
        /\ annotations = anns
        /\ numPages = 1
        /\ loadError = NoError
        /\ pageOverlays = NoOverlays
        /\ pageRefs = {1}
        /\ dom = [p \in Pages |-> IF p = 1 THEN TextLayer(l) ELSE NoLayer]
        /\ pageTimers = <<>>
        /\ debounce = <<>>
        /\ scan = [pc |-> "annotation", fullText |-> FragmentIndex(l).fullText,
                   anns |-> anns, a |-> 1, exact |-> NoExact, searchStart |-> 0,
                   matches |-> <<>>, finished |-> <<>>]
        /\ app = AppMounted(TRUE)

\* lines 119-126: the next annotation; one without a quotation is passed over
BeginAnnotation ==
    /\ scan.pc = "annotation"
    /\ scan.a <= Len(scan.anns)
    /\ LET exact == getAnnotationExact(scan.anns[scan.a])
       IN  scan' = IF exact = NoExact
                   THEN [scan EXCEPT !.a = @ + 1]
                   ELSE [scan EXCEPT !.pc = "loop", !.exact = exact,
                                     !.searchStart = 0, !.matches = <<>>]
    /\ UNCHANGED <<url, annotations, numPages, loadError, pageOverlays,
                   pageRefs, dom, pageTimers, debounce, app>>

\* lines 127-163: one test of the while condition and, when it holds, one
\* iteration; the loop is left when the test fails or indexOf gives -1
ScanIteration ==
    /\ scan.pc = "loop"
    /\ LET idx == IF scan.searchStart < Len(scan.fullText)
                  THEN IndexOf(scan.fullText, scan.exact, scan.searchStart)
                  ELSE -1
       IN  scan' = IF idx = -1
                   THEN [scan EXCEPT !.pc = "annotation", !.a = @ + 1,
                             !.finished = Append(@, [annotation |-> scan.a,
                                                     matches |-> scan.matches])]
                   ELSE [scan EXCEPT !.matches = Append(@, idx),
                                     !.searchStart = NextSearchStart(idx, scan.exact)]
    /\ UNCHANGED <<url, annotations, numPages, loadError, pageOverlays,
                   pageRefs, dom, pageTimers, debounce, app>>

\* line 166: the annotation loop is over and the page's overlays are stored
FinishPass ==
    /\ scan.pc = "annotation"
    /\ scan.a > Len(scan.anns)
    /\ scan' = [scan EXCEPT !.pc = "done"]
    /\ \E scroll \in Scrolls :
          pageOverlays' = ComputeOverlaysForPage(pageOverlays, 1, scan.anns, scroll)
    /\ UNCHANGED <<url, annotations, numPages, loadError, pageRefs, dom,
                   pageTimers, debounce, app>>

NextScan == BeginAnnotation \/ ScanIteration \/ FinishPass

\* the pass runs on: the steps of NextScan, those of FinishPass told by
\* their effect on scan
ScanStepDue ==
    \/ BeginAnnotation
    \/ ScanIteration
    \/ /\ scan.pc = "annotation"
       /\ scan.a > Len(scan.anns)
       /\ scan' = [scan EXCEPT !.pc = "done"]

SpecScan == InitScan /\ [][NextScan]_vars /\ WF_scan(ScanStepDue)

\* the idx values of the occurrences the whole-pass operators process
WholePassMatches ==
    [k \in 1..Len(ScannedOn(1)) |->
        [annotation |-> ScannedOn(1)[k].annotation,
         matches |-> [o \in 1..Len(ScannedOn(1)[k].occurrences) |->
                         ScannedOn(1)[k].occurrences[o].idx]]]

\* C18: the occurrence loop is entered only with a non-empty quotation; in
\* it searchStart strictly increases from one iteration to the next and at
\* most Len(fullText) matches are made; and every pass reaches line 166,
\* having processed the occurrences of the whole pass
C18_ScanTerminates ==
    /\ [](scan.pc = "loop" =>
            /\ Len(scan.exact) > 0
            /\ Len(scan.matches) <= Len(scan.fullText)
            /\ scan.searchStart <= Len(scan.fullText))
    /\ [][(scan.pc = "loop" /\ scan'.pc = "loop")
            => scan'.searchStart > scan.searchStart]_vars
    /\ [](scan.pc = "done" =>
            /\ 1 \in DOMAIN pageOverlays
            /\ scan.finished = WholePassMatches)
    /\ <>(scan.pc = "done")

\* the pass over the text "aaa" for the quotations '' and "a" is complete:
\* the first annotation was passed over, the second matched at 0, 1 and 2
C18_Witness ==
    /\ scan.pc = "done"
    /\ scan.fullText = <<"a", "a", "a">>
    /\ Len(scan.anns) = 2
    /\ getAnnotationExact(scan.anns[1]) = NoExact
    /\ scan.finished = <<[annotation |-> 2, matches |-> <<0, 1, 2>>]>>
    /\ Len(pageOverlays[1]) = 3

(***************************************************************************)
(* Repeated passes, resets and timers (Spec).                               *)
(***************************************************************************)
\* page p holds the rectangles of a pass over its present fragments for anns
HoldsResult(p, anns) ==
    /\ LaidOut(p)
    /\ p \in DOMAIN pageOverlays
    /\ pageOverlays[p] = PassOverlays(dom[p].spans, anns, PageRect(p, 0))

\* C11: a pass for page p that runs when p already holds the rectangles of a
\* pass over the same fragments and annotations produces the same rectangle
\* sequence, and leaves the overlay store as it was
C11_PassIdempotent ==
    [][/\ (PageTimerFires
             /\ HoldsResult(Head(pageTimers).page, Head(pageTimers).anns))
            => pageOverlays' = pageOverlays
       /\ DebounceFires =>
            \A p \in 1..debounce[1].numPages :
                HoldsResult(p, debounce[1].anns)
                    => /\ p \in DOMAIN pageOverlays'
                       /\ pageOverlays'[p] = pageOverlays[p]
      ]_vars

\* page 1 holds the non-empty result of a pass for the current annotations,
\* and a second pass for page 1 with the same annotations is pending
C11_Witness ==
    /\ debounce = <<>>
    /\ pageTimers # <<>>
    /\ Head(pageTimers).page = 1
    /\ Head(pageTimers).anns = annotations
    /\ HoldsResult(1, annotations)
    /\ pageOverlays[1] # <<>>

\* C15: when the last pending timer fires, the page it recomputes holds the
\* result for the current annotations, never a result computed from
\* annotations that have since been replaced
C15_SupersededPassHarmless ==
    [][/\ (PageTimerFires /\ Len(pageTimers) = 1 /\ debounce = <<>>
             /\ LaidOut(Head(pageTimers).page))
            => GetOverlaysForPage(pageOverlays', Head(pageTimers).page)
                 = PassOverlays(dom[Head(pageTimers).page].spans, annotations,
                                PageRect(Head(pageTimers).page, 0))
       /\ (DebounceFires /\ pageTimers = <<>>) =>
            \A p \in 1..numPages :
                LaidOut(p) =>
                    GetOverlaysForPage(pageOverlays', p)
                      = PassOverlays(dom[p].spans, annotations, PageRect(p, 0))
      ]_vars

\* C19: at most one timeout of the annotations effect is pending, and it is
\* the one set for the latest annotations and page count: every change of
\* either cleared the timeout set before
C19_SingleDebouncePending ==
    /\ Len(debounce) <= 1
    /\ debounce # <<>> =>
          /\ debounce[1].anns = annotations
          /\ debounce[1].numPages = numPages

\* page 1 shows the rectangles of an earlier annotation set, the annotations
\* have changed to a set that matches nothing on it, and the one pending
\* timeout is for the new set and both pages
C19_Witness ==
    /\ numPages = 2
    /\ LaidOut(1)
    /\ GetOverlaysForPage(pageOverlays, 1) # <<>>
    /\ annotations # <<>>
    /\ NoQuotationOccurs(dom[1].spans, annotations)
    /\ Len(debounce) = 1
    /\ debounce[1].anns = annotations
    /\ debounce[1].numPages = 2

(***************************************************************************)
(* After a reset: the url changed while the 200 ms timeout of a rendered    *)
(* page was pending, and no further page render or url change happens, so   *)
(* every page timeout of SpecReset was set before the reset.                *)
(***************************************************************************)
InitReset ==
    \E u \in Urls, anns \in SchedAnnotationSets,
       p \in Pages, old \in SchedAnnotationSets :
        /\ url = u
        /\ annotations = anns
        /\ numPages = 0
        /\ loadError = NoError
        /\ pageOverlays = NoOverlays
        /\ pageRefs = {}
        /\ dom = [q \in Pages |-> NoLayer]
        /\ pageTimers = <<[page |-> p, anns |-> old]>>
        /\ debounce = AnnotationsEffectDebounce(anns, 0, pageTimers)
        /\ scan = NoScan
        /\ app = AppMounted(TRUE)

NextReset ==
    \/ \E n \in Pages : DocumentLoadSuccess(n)
    \/ DocumentLoadError
    \/ \E p \in Pages, d \in SchedDomStates : RenderTextLayer(p, d)
    \/ FirePageTimer
    \/ FireDebounce
    \/ \E new \in SchedAnnotationSets : SetAnnotations(new)

SpecReset == InitReset /\ [][NextReset]_vars

\* C12: a page timeout that was pending when the url changed is cancelled:
\* it never runs a pass that writes to the overlay store after the reset
C12_PendingTimersCancelledByReset ==
    [][PageTimerFires => pageOverlays' = pageOverlays]_vars

\* C13: right after a url change the page count is 0, no page has a
\* rectangle in the overlay store, the page-reference registry is empty and
\* the load error is cleared, whatever the state before
C13_ResetReturnsToIdle ==
    [][url' # url =>
          /\ numPages' = 0
          /\ \A p \in Pages : GetOverlaysForPage(pageOverlays', p) = <<>>
          /\ pageRefs' = {}
          /\ loadError' = NoError]_vars

\* the url changed after a document was loaded and a page of it rendered
\* (its timeout is still pending), and the session is idle
C13_Witness ==
    /\ url = "B"
    /\ pageTimers # <<>>
    /\ numPages = 0
    /\ pageOverlays = NoOverlays
    /\ pageRefs = {}
    /\ loadError = NoError

(***************************************************************************)
(* After a change of the annotations to a non-empty set: the states right   *)
(* after the change (the effect has set its timeout), from which neither    *)
(* the annotations nor the url change again.  A timeout that is set and not *)
(* cleared runs once its delay has passed, so the firing of the oldest page *)
(* timeout and of the annotations timeout are weakly fair.                  *)
(***************************************************************************)
InitLive ==
    \E A \in SchedAnnotationSets \ {<<>>}, old \in SchedAnnotationSets,
       n \in 0..MaxPages :
        /\ url = "A"
        /\ annotations = A
        /\ numPages = n
        /\ loadError = NoError
        /\ pageRefs = 1..n
        /\ dom \in [Pages -> SchedDomStates]
        /\ \A q \in Pages : q > n => dom[q] = NoLayer
        /\ pageTimers \in {<<>>} \cup {<<[page |-> p, anns |-> old]>> : p \in 1..n}
        /\ pageOverlays \in {NoOverlays, ComputeAllPages(NoOverlays, 1, n, old, 0)}
        /\ Len(old) = 0 => pageOverlays = NoOverlays
        /\ debounce = AnnotationsEffectDebounce(A, n, pageTimers)
        /\ scan = NoScan
        /\ app = AppMounted(TRUE)

NextLive ==
    \/ \E n \in Pages : DocumentLoadSuccess(n)
    \/ DocumentLoadError
    \/ \E p \in Pages, d \in SchedDomStates : RenderTextLayer(p, d)
    \/ \E p \in Pages : PageRenderSuccess(p)
    \/ FirePageTimer
    \/ FireDebounce

\* the steps of FireDebounce are the steps of NextLive that empty debounce,
\* and those of FirePageTimer the ones that pop pageTimers (PageTimerFires)
DebounceDue == debounce # <<>> /\ debounce[1].ahead = 0 /\ debounce' = <<>>

SpecLive ==
    /\ InitLive /\ [][NextLive]_vars
    /\ WF_pageTimers(PageTimerFires)
    /\ WF_debounce(DebounceDue)

\* the annotations timeout has run and every laid-out page of the document
\* holds the rectangles of a pass for anns
Recomputed(anns) ==
    /\ debounce = <<>>
    /\ \A p \in 1..numPages : LaidOut(p) => HoldsResult(p, anns)

\* C14: after the annotations changed to a non-empty set, and while neither
\* they nor the url change again, the annotations timeout runs a pass with
\* the new set for every page 1..numPages, so that every laid-out page then
\* holds the result for the new set
C14_DebouncedRecomputation ==
    (debounce # <<>>) ~> Recomputed(annotations)

\* both pages of a two-page document are laid out and hold the result for
\* the non-empty annotations after the annotations timeout ran; page 1 has
\* rectangles
C14_Witness ==
    /\ annotations # <<>>
    /\ numPages = 2
    /\ Recomputed(annotations)
    /\ LaidOut(1) /\ LaidOut(2)
    /\ pageOverlays[1] # <<>>
    /\ pageTimers = <<>>

(***************************************************************************)
(* The App component (App.tsx): the form that loads a PDF url and creates   *)
(* a highlight through the Hypothesis API.  app holds                       *)
(*   loadedPdfUrl   whether loadedPdfUrl is set (it is never set to null)   *)
(*   status, error  the two message cells                                   *)
(*   token          whether VITE_HYPOTHESIS_API_TOKEN is set in the build   *)
(*   inFlight       the calls of handleCreateHighlight awaiting fetch       *)
(*   reloadTimers   the pending 500 ms timeouts of line 135                 *)
(*   iframeKey      the iframe key                                          *)
(* The text inputs are told apart by whether their trimmed value is empty.  *)
(***************************************************************************)
Creating == "Creating highlight annotation via Hypothesis"
Created == "Successfully created highlight annotation! Reloading viewer to show it..."
Reloaded == "Highlight created successfully!"
LoadFirst == "Please load a PDF URL first."
EnterText == "Please enter text to highlight."
TokenMissing == "API token not found."
RequestFailed == "Request failed"

AppUnchangedViewer ==
    UNCHANGED <<url, annotations, numPages, loadError, pageOverlays, pageRefs,
                dom, pageTimers, debounce, scan>>

InitApp ==
    /\ url = "A"
    /\ annotations = <<>>
    /\ numPages = 0
    /\ loadError = NoError
    /\ pageOverlays = NoOverlays
    /\ pageRefs = {}
    /\ dom = [p \in Pages |-> NoLayer]
    /\ pageTimers = <<>>
    /\ debounce = <<>>
    /\ scan = NoScan
    /\ \E token \in BOOLEAN : app = AppMounted(token)

\* handleLoadPdf (lines 29-35); blank tells whether pdfUrlInput.trim() is ''
handleLoadPdf(blank) ==
    /\ app' = IF blank THEN app
              ELSE [app EXCEPT !.loadedPdfUrl = TRUE, !.status = NoStatus,
                               !.error = NoError]
    /\ AppUnchangedViewer

\* a click on the button of line 187, which is disabled while loadedPdfUrl
\* is null: handleCreateHighlight up to its await (lines 37-93); blank tells
\* whether highlightText.trim() is ''.  Without a token the throw of line 55
\* is caught at line 141 in the same call.
handleCreateHighlight(blank) ==
    /\ app.loadedPdfUrl
    /\ app.inFlight < MaxInFlight
    /\ app' = IF ~app.loadedPdfUrl THEN [app EXCEPT !.error = LoadFirst]
              ELSE IF blank THEN [app EXCEPT !.error = EnterText]
              ELSE IF ~app.token
                   THEN [app EXCEPT !.error = TokenMissing, !.status = NoStatus]
              ELSE [app EXCEPT !.status = Creating, !.error = NoError,
                               !.inFlight = @ + 1]
    /\ AppUnchangedViewer

\* the fetch rejects, the response is not ok, or its body does not parse:
\* the catch block (lines 141-148)
RequestFails ==
    /\ app.inFlight > 0
    /\ app' = [app EXCEPT !.inFlight = @ - 1, !.error = RequestFailed,
                          !.status = NoStatus]
    /\ AppUnchangedViewer

\* the response is ok (lines 127-140)
RequestSucceeds ==
    /\ app.inFlight > 0
    /\ app.iframeKey + app.reloadTimers < MaxReloads
    /\ app' = [app EXCEPT !.inFlight = @ - 1, !.status = Created,
                          !.reloadTimers = @ + 1]
    /\ AppUnchangedViewer

\* the timeout of line 135 fires (lines 136-139)
ReloadTimerFires ==
    /\ app.reloadTimers > 0
    /\ app' = [app EXCEPT !.reloadTimers = @ - 1, !.iframeKey = @ + 1,
                          !.status = Reloaded]
    /\ AppUnchangedViewer

NextApp ==
    \/ \E blank \in BOOLEAN : handleLoadPdf(blank)
    \/ \E blank \in BOOLEAN : handleCreateHighlight(blank)
    \/ RequestFails
    \/ RequestSucceeds
    \/ ReloadTimerFires

SpecApp == InitApp /\ [][NextApp]_vars

\* C20: status and error are never both set
C20_StatusErrorExclusive ==
    ~(app.status # NoStatus /\ app.error # NoError)

====
